---------------------------- MODULE Spec2Model ----------------------------
(***************************************************************************)
(* A model of the DHCPv4 part of the dhcp library: the DHCPv4 message      *)
(* (dhcpv4/dhcpv4.go), its modifiers (dhcpv4/modifiers.go) and the client  *)
(* that runs a Discover / Offer / Request / Ack exchange                   *)
(* (dhcpv4/client.go).                                                     *)
(*                                                                         *)
(* Four specifications share the module:                                   *)
(*   SpecMsg       one DHCPv4 value and the constructors, FromBytes,       *)
(*                 setters, modifiers and ToBytes applied to it;           *)
(*   SpecCodec     ToBytes and FromBytes applied in turn to a DHCPv4       *)
(*                 value drawn from a bounded set;                         *)
(*   SpecIAPrefix  ParseOptIAPrefix (dhcpv6) applied to a payload drawn    *)
(*                 from a bounded set;                                     *)
(*   Spec          Client.Exchange with BroadcastSendReceive, its receive  *)
(*                 goroutine, the error channel and the two time-outs.     *)
(***************************************************************************)
EXTENDS Integers, Sequences, FiniteSets, TLC

VARIABLES
    \* ---- SpecMsg: one message under construction ----
    d,            \* the DHCPv4 value the last operation produced (NoMsg: nil)
    prev,         \* the DHCPv4 value the last operation was applied to
    op,           \* the name of the last operation
    arg,          \* the argument of the last operation
    opErr,        \* the error the last operation returned ("nil": none)
    calls,        \* the number of operations applied since construction
    endAdded,     \* an End option was handed to AddOption since New()
    fromNew,      \* d descends from New() through AddOption calls only
    \* ---- Spec: Client.Exchange ----
    pc,           \* the position of Exchange and, inside BroadcastSendReceive,
                  \* of the caller's side of it
    discoverIn,   \* Exchange's discover parameter (NoMsg: nil)
    modifiers,    \* Exchange's modifiers parameter, a sequence of names
    conversation, \* Exchange's conversation slice
    exErr,        \* the error Exchange returned ("nil": none)
    sfd, rfd,     \* the two sockets: "none" (never opened), "open", "closed"
    reqRes,       \* what NewRequestFromOffer returned to Exchange
    phase,        \* BroadcastSendReceive calls made: 1 the Offer's, 2 the Ack's
    packet,       \* BroadcastSendReceive's packet parameter
    messageType,  \* BroadcastSendReceive's messageType parameter
    err,          \* BroadcastSendReceive's variable err, which the goroutine
                  \* reads
    response,     \* BroadcastSendReceive's variable response, which the
                  \* goroutine writes
    recvErrors,   \* the channel recvErrors (capacity 1): the values in it
    gpc,          \* the position of the receive goroutine
    innerErr,     \* the goroutine's innerErr
    reads,        \* datagrams the goroutine has read in this call
    log,          \* per datagram read in this call: its index in ExDatagrams,
                  \* what the goroutine did with it, and whether it was
                  \* read before the caller's Sendto was issued
    signals,      \* the values the goroutine of this call has sent on
                  \* recvErrors
    sent,         \* the packets handed to a successful Sendto, in order
    retMsg,       \* what the last BroadcastSendReceive returned: the message
    retErr        \* ... and the error

msgVars == <<d, prev, op, arg, opErr, calls, endAdded, fromNew>>
exVars  == <<pc, discoverIn, modifiers, conversation, exErr, sfd, rfd, reqRes,
             phase, packet, messageType, err, response, recvErrors, gpc,
             innerErr, reads, log, signals, sent, retMsg, retErr>>
vars    == <<msgVars, exVars>>

(***************************************************************************)
(* Bounds of the model.                                                    *)
(***************************************************************************)
\* operations applied to one message after its construction
MaxCalls == 3
\* datagrams the receive goroutine reads in one BroadcastSendReceive
MaxReads == 2
\* the longest OptIAPrefix payload handed to ParseOptIAPrefix
MaxPayloadLen == 27

(***************************************************************************)
(* Program constants.                                                      *)
(***************************************************************************)
HeaderSize        == 236
MaxHwAddrLen      == 16
DefaultHwAddrLen  == 6
OpcodeBootRequest == 1
OpcodeBootReply   == 2
HwTypeEthernet    == 1
BroadcastFlag     == 32768          \* 0x8000
OptionPad                  == 0
OptionRequestedIPAddress   == 50
OptionDHCPMessageType      == 53
OptionServerIdentifier     == 54
OptionParameterRequestList == 55
OptionTFTPServerName       == 66
OptionBootfileName         == 67
OptionEnd                  == 255
OptionSubnetMask           == 1
OptionRouter               == 3
OptionDomainNameServer     == 6
OptionDomainName           == 15
MessageTypeNone     == 0
MessageTypeDiscover == 1
MessageTypeOffer    == 2
MessageTypeRequest  == 3
MessageTypeAck      == 5
MessageTypeInform   == 8
MagicCookie == <<99, 130, 83, 99>>

(***************************************************************************)
(* Bytes.                                                                  *)
(***************************************************************************)
Zeros(n) == [i \in 1 .. n |-> 0]

\* binary.BigEndian.Uint32 / Uint16 of a slice, and their inverses
Uint32(b) == ((b[1] * 256 + b[2]) * 256 + b[3]) * 256 + b[4]
Uint16(b) == b[1] * 256 + b[2]
PutUint32(x) == << (x \div 16777216) % 256, (x \div 65536) % 256,
                   (x \div 256) % 256, x % 256 >>
PutUint16(x) == << (x \div 256) % 256, x % 256 >>

\* data[from:to] of Go: the bytes at 0-based offsets from .. to-1
Slice(data, from, to) == [i \in 1 .. (to - from) |-> data[from + i]]

\* net.IP values: a nil IP is the empty sequence
NilIP    == << >>
\* net.IPv4zero: the 16-byte form of 0.0.0.0
IPv4zero == <<0, 0, 0, 0, 0, 0, 0, 0, 0, 0, 255, 255, 0, 0, 0, 0>>

(***************************************************************************)
(* Options. An option is [code, data]: data is the value the option        *)
(* struct holds (MessageType: one byte; ServerID, RequestedAddr: an IP;    *)
(* RequestedOpts: the list of codes; Generic: its bytes).                  *)
(***************************************************************************)
Opt(code, data) == [code |-> code, data |-> data]

OptEnd               == Opt(OptionEnd, << >>)
OptPad               == Opt(OptionPad, << >>)
OptMessageType(t)    == Opt(OptionDHCPMessageType, <<t>>)
OptServerIdentifier(ip)   == Opt(OptionServerIdentifier, ip)
OptRequestedIPAddress(ip) == Opt(OptionRequestedIPAddress, ip)
OptParameterRequestList(codes) == Opt(OptionParameterRequestList, codes)

\* the nil *DHCPv4
NoMsg == [nil |-> TRUE]


(***************************************************************************)
(* The DHCPv4 structure and its methods (dhcpv4.go).                       *)
(***************************************************************************)
Last(s) == s[Len(s)]

\* an operation's result: the error ("nil": none) and the message
Ok(m)   == [err |-> "nil", msg |-> m]
Fail(e) == [err |-> e, msg |-> NoMsg]

\* GenerateTransactionID: rnd is what the random source gives, RandFail when
\* reading it fails
RandFail == 0 - 1
GenerateTransactionID(rnd) ==
    IF rnd = RandFail THEN [err |-> "rand", tid |-> 0]
                      ELSE [err |-> "nil", tid |-> rnd]

AddOptionAlwaysAppends(m, option) ==
    [m EXCEPT !.options = Append(@, option)]

AddOption(m, option) ==
    IF Len(m.options) = 0 \/ Last(m.options).code # OptionEnd
    THEN [m EXCEPT !.options = Append(@, option)]
    ELSE LET end == Last(m.options)
         IN  [m EXCEPT !.options = Append([@ EXCEPT ![Len(@)] = option], end)]

SetOptions(m, options) == [m EXCEPT !.options = options]

SetOpcode(m, opcode) == [m EXCEPT !.opcode = opcode]
SetHwType(m, hwType) == [m EXCEPT !.hwType = hwType]

SetHwAddrLen(m, hwAddrLen) ==
    [m EXCEPT !.hwAddrLen = IF hwAddrLen > MaxHwAddrLen THEN MaxHwAddrLen
                                                        ELSE hwAddrLen]

SetHopCount(m, hopCount) == [m EXCEPT !.hopCount = hopCount]
SetTransactionID(m, transactionID) == [m EXCEPT !.transactionID = transactionID]
SetFlags(m, flags) == [m EXCEPT !.flags = flags]

IsBroadcast(m)  == (m.flags \div BroadcastFlag) % 2 = 1
SetBroadcast(m) == IF IsBroadcast(m) THEN m
                   ELSE [m EXCEPT !.flags = @ + BroadcastFlag]
SetUnicast(m)   == IF IsBroadcast(m) THEN [m EXCEPT !.flags = @ - BroadcastFlag]
                   ELSE m

SetClientIPAddr(m, ip)  == [m EXCEPT !.clientIPAddr = ip]
SetYourIPAddr(m, ip)    == [m EXCEPT !.yourIPAddr = ip]
SetServerIPAddr(m, ip)  == [m EXCEPT !.serverIPAddr = ip]
SetGatewayIPAddr(m, ip) == [m EXCEPT !.gatewayIPAddr = ip]

SetClientHwAddr(m, clientHwAddr) ==
    LET hw == IF Len(clientHwAddr) > 16 THEN SubSeq(clientHwAddr, 1, 16)
                                        ELSE clientHwAddr
    IN  [m EXCEPT !.clientHwAddr =
            [i \in 1 .. 16 |-> IF i <= Len(hw) THEN hw[i] ELSE 0]]

\* clientHwAddr[:hwAddrLen] of ClientHwAddrToString: the slice expression
\* panics when hwAddrLen exceeds the array's 16 bytes
ClientHwAddrToString(m) ==
    IF m.hwAddrLen > 16 THEN "panic"
    ELSE "ok"

RECURSIVE GetOneOptionFrom(_, _, _)
GetOneOptionFrom(options, i, code) ==
    IF i > Len(options) THEN NoMsg
    ELSE IF options[i].code = code THEN options[i]
    ELSE GetOneOptionFrom(options, i + 1, code)

\* GetOneOption: the first option with the code, nil (NoMsg) when none
GetOneOption(m, code) == GetOneOptionFrom(m.options, 1, code)

\* MessageType: MessageTypeNone stands for the nil pointer (no option)
HasMessageType(m) == GetOneOption(m, OptionDHCPMessageType) # NoMsg
MessageType(m) == GetOneOption(m, OptionDHCPMessageType).data[1]

(***************************************************************************)
(* OptionsFromBytes: magic cookie, then the options up to End or the end   *)
(* of the buffer.                                                          *)
(***************************************************************************)
RECURSIVE ParseOptions(_, _, _)
ParseOptions(data, i, acc) ==
    \* i: 1-based index of the next byte
    IF i > Len(data) THEN [err |-> "nil", options |-> acc]
    ELSE IF data[i] = OptionPad THEN ParseOptions(data, i + 1, Append(acc, OptPad))
    ELSE IF data[i] = OptionEnd THEN [err |-> "nil", options |-> Append(acc, OptEnd)]
    ELSE IF i + 1 > Len(data) THEN [err |-> "short option", options |-> << >>]
    ELSE LET code == data[i]
             n    == data[i + 1]
         IN  IF i + 1 + n > Len(data)
             THEN [err |-> "short option", options |-> << >>]
             ELSE IF code = OptionDHCPMessageType /\ n # 1
             THEN [err |-> "bad option length", options |-> << >>]
             ELSE IF code \in {OptionServerIdentifier, OptionRequestedIPAddress}
                     /\ n # 4
             THEN [err |-> "bad option length", options |-> << >>]
             ELSE ParseOptions(data, i + 2 + n,
                      Append(acc, Opt(code, [k \in 1 .. n |-> data[i + 1 + k]])))

OptionsFromBytes(data) ==
    IF Len(data) < Len(MagicCookie)
    THEN [err |-> "short options", options |-> << >>]
    ELSE IF SubSeq(data, 1, Len(MagicCookie)) # MagicCookie
    THEN [err |-> "bad magic cookie", options |-> << >>]
    ELSE ParseOptions(data, Len(MagicCookie) + 1, << >>)

(***************************************************************************)
(* The constructors.                                                       *)
(***************************************************************************)
New(rnd) ==
    LET tid == GenerateTransactionID(rnd)
        options == OptionsFromBytes(MagicCookie)
        m == [opcode         |-> OpcodeBootRequest,
              hwType         |-> HwTypeEthernet,
              hwAddrLen      |-> DefaultHwAddrLen,
              hopCount       |-> 0,
              transactionID  |-> tid.tid,
              numSeconds     |-> 0,
              flags          |-> 0,
              clientIPAddr   |-> IPv4zero,
              yourIPAddr     |-> IPv4zero,
              serverIPAddr   |-> IPv4zero,
              gatewayIPAddr  |-> IPv4zero,
              clientHwAddr   |-> Zeros(16),
              serverHostName |-> Zeros(64),
              bootFileName   |-> Zeros(128),
              options        |-> options.options]
    IN  IF tid.err # "nil" THEN Fail(tid.err)
        ELSE IF options.err # "nil" THEN Fail(options.err)
        ELSE Ok(AddOption(m, OptEnd))

NewDiscovery(hwaddr, rnd) ==
    LET n == New(rnd)
    IN  IF n.err # "nil" THEN n
        ELSE LET d1 == SetOpcode(n.msg, OpcodeBootRequest)
                 d2 == SetHwType(d1, HwTypeEthernet)
                 d3 == SetHwAddrLen(d2, Len(hwaddr) % 256)
                 d4 == SetClientHwAddr(d3, hwaddr)
                 d5 == SetBroadcast(d4)
                 d6 == AddOption(d5, OptMessageType(MessageTypeDiscover))
                 d7 == AddOption(d6, OptParameterRequestList(
                           <<OptionSubnetMask, OptionRouter, OptionDomainName,
                             OptionDomainNameServer>>))
             IN  Ok(d7)

NewInform(hwaddr, localIP, rnd) ==
    LET n == New(rnd)
    IN  IF n.err # "nil" THEN n
        ELSE LET d1 == SetOpcode(n.msg, OpcodeBootRequest)
                 d2 == SetHwType(d1, HwTypeEthernet)
                 d3 == SetHwAddrLen(d2, Len(hwaddr) % 256)
                 d4 == SetClientHwAddr(d3, hwaddr)
                 d5 == SetClientIPAddr(d4, localIP)
                 d6 == AddOption(d5, OptMessageType(MessageTypeInform))
             IN  Ok(d6)

(***************************************************************************)
(* The modifiers (modifiers.go). A modifier is named by a string; the      *)
(* relay address of WithRelay is RelayIP.                                  *)
(***************************************************************************)
RelayIP == <<10, 0, 0, 1>>

RECURSIVE IndexOfCode(_, _, _)
IndexOfCode(options, i, code) ==
    IF i > Len(options) THEN 0
    ELSE IF options[i].code = code THEN i
    ELSE IndexOfCode(options, i + 1, code)

Contains(s, x) == \E i \in 1 .. Len(s) : s[i] = x

\* WithNetboot without the two "found" tests
WithNetbootAlwaysAppends(m) ==
    LET i == IndexOfCode(m.options, 1, OptionParameterRequestList)
    IN  IF i # 0
        THEN [m EXCEPT !.options[i].data =
                 @ \o <<OptionTFTPServerName, OptionBootfileName>>]
        ELSE AddOption(m, OptParameterRequestList(
                 <<OptionTFTPServerName, OptionBootfileName>>))

WithNetboot(m) ==
    LET i == IndexOfCode(m.options, 1, OptionParameterRequestList)
    IN  IF i # 0
        THEN LET r0 == m.options[i].data
                 r1 == IF Contains(r0, OptionTFTPServerName) THEN r0
                       ELSE Append(r0, OptionTFTPServerName)
                 r2 == IF Contains(r0, OptionBootfileName) THEN r1
                       ELSE Append(r1, OptionBootfileName)
             IN  [m EXCEPT !.options[i].data = r2]
        ELSE AddOption(m, OptParameterRequestList(
                 <<OptionTFTPServerName, OptionBootfileName>>))

WithRelay(m) == SetHopCount(SetGatewayIPAddr(SetUnicast(m), RelayIP), 1)

ApplyModifier(name, m) ==
    CASE name = "WithNetboot" -> WithNetboot(m)
      [] name = "WithRelay"   -> WithRelay(m)

\* for _, mod := range modifiers { d = mod(d) }
RECURSIVE ApplyModifiers(_, _, _)
ApplyModifiers(mods, i, m) ==
    IF i > Len(mods) THEN m
    ELSE ApplyModifiers(mods, i + 1, ApplyModifier(mods[i], m))

(***************************************************************************)
(* NewRequestFromOffer.                                                    *)
(***************************************************************************)
\* the loop of lines 235-239 stopped at the first ServerIdentifier
RECURSIVE FindFirstServerIP(_, _, _)
FindFirstServerIP(options, i, serverIP) ==
    IF i > Len(options) THEN serverIP
    ELSE IF options[i].code = OptionServerIdentifier THEN options[i].data
    ELSE FindFirstServerIP(options, i + 1, serverIP)

\* the loop of lines 235-239: every ServerIdentifier overwrites serverIP
RECURSIVE FindServerIP(_, _, _)
FindServerIP(options, i, serverIP) ==
    IF i > Len(options) THEN serverIP
    ELSE FindServerIP(options, i + 1,
             IF options[i].code = OptionServerIdentifier
             THEN options[i].data ELSE serverIP)

\* a result of NewRequestFromOffer: the error, the request, the modifiers
\* it called (in order) and the offer as the call left it
ReqResult(e, m, applied, offer) ==
    [err |-> e, msg |-> m, applied |-> applied, offer |-> offer]

\* NewRequestFromOffer with the modifiers run before the server IP check
NewRequestFromOfferModsFirst(offer, mods, rnd) ==
    LET n == New(rnd)
    IN  IF n.err # "nil" THEN ReqResult(n.err, NoMsg, << >>, offer)
        ELSE LET serverIP == FindServerIP(offer.options, 1, NilIP)
                 d1 == ApplyModifiers(mods, 1, n.msg)
             IN  IF serverIP = NilIP
                 THEN ReqResult("Missing Server IP Address in DHCP Offer",
                                NoMsg, mods, offer)
                 ELSE ReqResult("nil", SetServerIPAddr(d1, serverIP), mods, offer)

NewRequestFromOffer(offer, mods, rnd) ==
    LET n == New(rnd)
    IN  IF n.err # "nil" THEN ReqResult(n.err, NoMsg, << >>, offer)
        ELSE LET d1 == SetOpcode(n.msg, OpcodeBootRequest)
                 d2 == SetHwType(d1, offer.hwType)
                 d3 == SetHwAddrLen(d2, offer.hwAddrLen)
                 d4 == SetClientHwAddr(d3, offer.clientHwAddr)
                 d5 == SetTransactionID(d4, offer.transactionID)
                 d6 == IF IsBroadcast(offer) THEN SetBroadcast(d5)
                                             ELSE SetUnicast(d5)
                 serverIP == FindServerIP(offer.options, 1, NilIP)
             IN  IF serverIP = NilIP
                 THEN ReqResult("Missing Server IP Address in DHCP Offer",
                                NoMsg, << >>, offer)
                 ELSE LET d7 == SetServerIPAddr(d6, serverIP)
                          d8 == AddOption(d7, OptMessageType(MessageTypeRequest))
                          d9 == AddOption(d8, OptRequestedIPAddress(offer.yourIPAddr))
                          d10 == AddOption(d9, OptServerIdentifier(serverIP))
                      IN  ReqResult("nil", ApplyModifiers(mods, 1, d10), mods, offer)

(***************************************************************************)
(* FromBytes.                                                              *)
(***************************************************************************)
\* what FromBytes stores in hwAddrLen for the byte data[2]
HwAddrLenFromByte(b) == b

FromBytes(data) ==
    IF Len(data) < HeaderSize
    THEN Fail("Invalid DHCPv4 header")
    ELSE LET options == OptionsFromBytes(Slice(data, 236, Len(data)))
             m == [opcode         |-> data[1],
                   hwType         |-> data[2],
                   hwAddrLen      |-> HwAddrLenFromByte(data[3]),
                   hopCount       |-> data[4],
                   transactionID  |-> Uint32(Slice(data, 4, 8)),
                   numSeconds     |-> Uint16(Slice(data, 8, 10)),
                   flags          |-> Uint16(Slice(data, 10, 12)),
                   clientIPAddr   |-> Slice(data, 12, 16),
                   yourIPAddr     |-> Slice(data, 16, 20),
                   serverIPAddr   |-> Slice(data, 20, 24),
                   gatewayIPAddr  |-> Slice(data, 24, 28),
                   clientHwAddr   |-> Slice(data, 28, 44),
                   serverHostName |-> Slice(data, 44, 108),
                   bootFileName   |-> Slice(data, 108, 236),
                   options        |-> options.options]
         IN  IF options.err # "nil" THEN Fail(options.err) ELSE Ok(m)

(***************************************************************************)
(* ToBytes.                                                                *)
(***************************************************************************)
\* net.IP.To4: a 4-byte IP as it is, the 16-byte form of an IPv4 address
\* (ten zero bytes, 255, 255, then the address) as its last four bytes, nil
\* for everything else
To4(ip) ==
    IF Len(ip) = 4 THEN ip
    ELSE IF Len(ip) = 16 /\ SubSeq(ip, 1, 12) = SubSeq(IPv4zero, 1, 12)
    THEN SubSeq(ip, 13, 16)
    ELSE NilIP

\* Option.ToBytes: the code, the length, the value; End and Pad are the code
\* alone
OptionToBytes(o) ==
    IF o.code \in {OptionEnd, OptionPad} THEN <<o.code>>
    ELSE <<o.code, Len(o.data) % 256>> \o o.data

\* for _, opt := range d.options { ret = append(ret, opt.ToBytes()...) }
RECURSIVE OptionsToBytes(_, _)
OptionsToBytes(options, i) ==
    IF i > Len(options) THEN << >>
    ELSE OptionToBytes(options[i]) \o OptionsToBytes(options, i + 1)

\* ValidateOptions: the warnings it prints (it changes nothing)
RECURSIVE ValidateOptionsFrom(_, _, _)
ValidateOptionsFrom(options, i, foundOptionEnd) ==
    IF i > Len(options)
    THEN IF foundOptionEnd THEN {} ELSE {"no End option found"}
    ELSE (IF foundOptionEnd /\ options[i].code = OptionEnd
          THEN {"found duplicate End option"} ELSE {})
         \cup
         (IF foundOptionEnd /\ options[i].code \notin {OptionEnd, OptionPad}
          THEN {"found option after End option"} ELSE {})
         \cup
         ValidateOptionsFrom(options, i + 1,
             foundOptionEnd \/ options[i].code = OptionEnd)

ValidateOptions(m) == ValidateOptionsFrom(m.options, 1, FALSE)

\* ToBytes with yourIPAddr and serverIPAddr written in the other order
ToBytesServerFirst(m) ==
    <<m.opcode, m.hwType, m.hwAddrLen, m.hopCount>>
    \o PutUint32(m.transactionID) \o PutUint16(m.numSeconds)
    \o PutUint16(m.flags)
    \o To4(m.clientIPAddr) \o To4(m.serverIPAddr) \o To4(m.yourIPAddr)
    \o To4(m.gatewayIPAddr)
    \o m.clientHwAddr \o m.serverHostName \o m.bootFileName
    \o MagicCookie \o OptionsToBytes(m.options, 1)

ToBytes(m) ==
    <<m.opcode, m.hwType, m.hwAddrLen, m.hopCount>>
    \o PutUint32(m.transactionID) \o PutUint16(m.numSeconds)
    \o PutUint16(m.flags)
    \o To4(m.clientIPAddr) \o To4(m.yourIPAddr) \o To4(m.serverIPAddr)
    \o To4(m.gatewayIPAddr)
    \o m.clientHwAddr \o m.serverHostName \o m.bootFileName
    \o MagicCookie \o OptionsToBytes(m.options, 1)

(***************************************************************************)
(* Inputs: the values the operations are called with.                      *)
(***************************************************************************)
\* transaction ids (what the random source gives)
\* (TLC's integers are 32-bit signed: the ids of the inputs stay below 2^31)
XidA == Uint32(<<1, 2, 3, 4>>)
XidB == Uint32(<<113, 178, 195, 212>>)
IPServerA == <<192, 168, 0, 1>>
IPServerB == <<192, 168, 0, 2>>
IPLease   == <<192, 168, 0, 77>>
HwAddr6   == <<0, 17, 34, 51, 68, 85>>
HwAddr20  == [i \in 1 .. 20 |-> i]

\* the wire form of an option of the inputs: code, length, value (End: code)
OptWire(o) == IF o.code = OptionEnd THEN <<OptionEnd>>
              ELSE <<o.code, Len(o.data)>> \o o.data

RECURSIVE OptsWire(_)
OptsWire(opts) == IF opts = << >> THEN << >>
                  ELSE OptWire(Head(opts)) \o OptsWire(Tail(opts))

\* a datagram as a server (or anyone on the segment) puts it on the wire
Datagram(opcode, hlen, xid, flags, opts) ==
    <<opcode, HwTypeEthernet, hlen, 0>> \o PutUint32(xid) \o <<0, 0>>
    \o PutUint16(flags) \o <<0, 0, 0, 0>> \o IPLease \o IPServerA
    \o <<0, 0, 0, 0>> \o HwAddr6 \o Zeros(10) \o Zeros(64) \o Zeros(128)
    \o MagicCookie \o OptsWire(opts)

DgOffer      == Datagram(OpcodeBootReply, 6, XidA, BroadcastFlag,
                    <<OptMessageType(MessageTypeOffer),
                      OptServerIdentifier(IPServerA), OptEnd>>)
DgOfferTwoSID == Datagram(OpcodeBootReply, 6, XidA, 0,
                    <<OptMessageType(MessageTypeOffer),
                      OptServerIdentifier(IPServerA),
                      OptServerIdentifier(IPServerB), OptEnd>>)
DgOfferNoSID == Datagram(OpcodeBootReply, 6, XidA, 0,
                    <<OptMessageType(MessageTypeOffer), OptEnd>>)
DgOfferLongHw == Datagram(OpcodeBootReply, 17, XidA, 0,
                    <<OptMessageType(MessageTypeOffer),
                      OptServerIdentifier(IPServerA), OptEnd>>)
DgAck        == Datagram(OpcodeBootReply, 6, XidA, 0,
                    <<OptMessageType(MessageTypeAck),
                      OptServerIdentifier(IPServerA), OptEnd>>)
DgOtherXid   == Datagram(OpcodeBootReply, 6, XidB, 0,
                    <<OptMessageType(MessageTypeOffer),
                      OptServerIdentifier(IPServerB), OptEnd>>)
DgRequest    == Datagram(OpcodeBootRequest, 6, XidA, 0,
                    <<OptMessageType(MessageTypeOffer), OptEnd>>)
DgNoType     == Datagram(OpcodeBootReply, 6, XidA, 0,
                    <<OptServerIdentifier(IPServerA), OptEnd>>)
DgNoEnd      == Datagram(OpcodeBootReply, 255, XidB, 0,
                    <<OptMessageType(MessageTypeAck)>>)
DgShort      == <<OpcodeBootReply, HwTypeEthernet, 6, 0>> \o PutUint32(XidA)
DgBadOption  == Datagram(OpcodeBootReply, 6, XidA, 0, << >>)
                    \o <<OptionDHCPMessageType, 4, MessageTypeOffer>>

(***************************************************************************)
(* SpecMsg: the operations on one DHCPv4 value.                            *)
(***************************************************************************)
MsgIdle ==
    /\ d = NoMsg /\ prev = NoMsg /\ op = "none" /\ arg = << >>
    /\ opErr = "nil" /\ calls = 0 /\ endAdded = FALSE /\ fromNew = FALSE

ExIdle ==
    /\ pc = "idle" /\ discoverIn = NoMsg /\ modifiers = << >>
    /\ conversation = << >> /\ exErr = "nil"
    /\ sfd = "none" /\ rfd = "none" /\ reqRes = NoMsg
    /\ phase = 0 /\ packet = NoMsg /\ messageType = MessageTypeNone
    /\ err = "nil" /\ response = NoMsg /\ recvErrors = << >>
    /\ gpc = "idle" /\ innerErr = "nil" /\ reads = 0 /\ log = << >>
    /\ signals = 0
    /\ sent = << >> /\ retMsg = NoMsg /\ retErr = "nil"

MsgInit == MsgIdle /\ ExIdle

Rnds        == {XidA, XidB, RandFail}
HwAddrs     == {HwAddr6, HwAddr20}
MsgDatagrams == {DgOffer, DgOfferTwoSID, DgOfferNoSID, DgOfferLongHw,
                 DgNoEnd, DgShort, DgBadOption}
OptionInputs == {OptEnd, OptMessageType(MessageTypeOffer),
                 OptServerIdentifier(IPServerA), OptServerIdentifier(IPServerB)}
OptionLists  == {<< >>,
                 <<OptServerIdentifier(IPServerB), OptServerIdentifier(NilIP)>>,
                 <<OptEnd, OptPad>>,
                 <<OptParameterRequestList(<<OptionBootfileName, OptionRouter>>),
                   OptParameterRequestList(<< >>)>>}
HwAddrLens   == {0, 17, 255}
\* 2001:db8::1
IPv6Addr     == <<32, 1, 13, 184, 0, 0, 0, 0, 0, 0, 0, 0, 0, 0, 0, 1>>
\* the arguments of the IP address setters: absent (nil) or an IPv6 address
ClientIPInputs  == {NilIP}
YourIPInputs    == {IPv6Addr}
ServerIPInputs  == {IPv6Addr}
GatewayIPInputs == {NilIP}
ModifierLists == {<< >>, <<"WithNetboot", "WithRelay">>}

\* a constructor was called: its result is the message under construction
Constructed(name, a, r) ==
    /\ d = NoMsg /\ op = "none"
    /\ d' = r.msg /\ prev' = NoMsg /\ op' = name /\ arg' = a
    /\ opErr' = r.err /\ calls' = 0 /\ endAdded' = FALSE
    /\ UNCHANGED exVars

\* a method was called on the message under construction
Called(name, a, m) ==
    /\ d # NoMsg /\ calls < MaxCalls
    /\ d' = m /\ prev' = d /\ op' = name /\ arg' = a
    /\ opErr' = "nil" /\ calls' = calls + 1
    /\ UNCHANGED exVars

MsgNew ==
    \E rnd \in Rnds :
        /\ Constructed("New", rnd, New(rnd))
        /\ fromNew' = TRUE

MsgNewDiscovery ==
    \E hwaddr \in HwAddrs, rnd \in Rnds :
        /\ Constructed("NewDiscovery", hwaddr, NewDiscovery(hwaddr, rnd))
        /\ fromNew' = TRUE

MsgNewInform ==
    \E hwaddr \in HwAddrs, rnd \in {XidB, RandFail} :
        /\ Constructed("NewInform", hwaddr, NewInform(hwaddr, IPLease, rnd))
        /\ fromNew' = TRUE

MsgFromBytes ==
    \E data \in MsgDatagrams :
        /\ Constructed("FromBytes", data, FromBytes(data))
        /\ fromNew' = FALSE

MsgAddOption ==
    \E option \in OptionInputs :
        /\ Called("AddOption", option, AddOption(d, option))
        /\ endAdded' = (endAdded \/ option.code = OptionEnd)
        /\ UNCHANGED fromNew

MsgSetOptions ==
    \E options \in OptionLists :
        /\ Called("SetOptions", options, SetOptions(d, options))
        /\ fromNew' = FALSE
        /\ UNCHANGED endAdded

MsgSetHwAddrLen ==
    \E hwAddrLen \in HwAddrLens :
        /\ Called("SetHwAddrLen", hwAddrLen, SetHwAddrLen(d, hwAddrLen))
        /\ UNCHANGED <<endAdded, fromNew>>

MsgSetOpcode ==
    /\ Called("SetOpcode", OpcodeBootReply, SetOpcode(d, OpcodeBootReply))
    /\ UNCHANGED <<endAdded, fromNew>>

MsgSetBroadcast ==
    /\ Called("SetBroadcast", << >>, SetBroadcast(d))
    /\ UNCHANGED <<endAdded, fromNew>>

MsgSetUnicast ==
    /\ Called("SetUnicast", << >>, SetUnicast(d))
    /\ UNCHANGED <<endAdded, fromNew>>

MsgSetClientIPAddr ==
    \E ip \in ClientIPInputs :
        /\ Called("SetClientIPAddr", ip, SetClientIPAddr(d, ip))
        /\ UNCHANGED <<endAdded, fromNew>>

MsgSetYourIPAddr ==
    \E ip \in YourIPInputs :
        /\ Called("SetYourIPAddr", ip, SetYourIPAddr(d, ip))
        /\ UNCHANGED <<endAdded, fromNew>>

MsgSetServerIPAddr ==
    \E ip \in ServerIPInputs :
        /\ Called("SetServerIPAddr", ip, SetServerIPAddr(d, ip))
        /\ UNCHANGED <<endAdded, fromNew>>

MsgSetGatewayIPAddr ==
    \E ip \in GatewayIPInputs :
        /\ Called("SetGatewayIPAddr", ip, SetGatewayIPAddr(d, ip))
        /\ UNCHANGED <<endAdded, fromNew>>

\* WithNetboot(d)
MsgWithNetboot ==
    /\ Called("WithNetboot", << >>, WithNetboot(d))
    /\ UNCHANGED <<endAdded, fromNew>>

\* NewRequestFromOffer(d, mods...): d is the offer, the request replaces it
MsgNewRequestFromOffer ==
    \E mods \in ModifierLists, rnd \in {XidB, RandFail} :
        LET r == NewRequestFromOffer(d, mods, rnd)
        IN  /\ d # NoMsg /\ calls < MaxCalls /\ op # "NewRequestFromOffer"
            /\ d' = r.msg /\ prev' = d /\ op' = "NewRequestFromOffer"
            /\ arg' = r /\ opErr' = r.err /\ calls' = calls + 1
            /\ endAdded' = FALSE /\ fromNew' = TRUE
            /\ UNCHANGED exVars

\* ClientHwAddrToString(): opErr tells whether the slice expression panicked
MsgClientHwAddrToString ==
    /\ d # NoMsg /\ op # "ClientHwAddrToString"
    /\ op' = "ClientHwAddrToString" /\ opErr' = ClientHwAddrToString(d)
    /\ arg' = << >>
    /\ UNCHANGED <<d, prev, calls, endAdded, fromNew>>
    /\ UNCHANGED exVars

\* ToBytes(): arg holds the bytes it returned
MsgToBytes ==
    /\ d # NoMsg /\ op # "ToBytes"
    /\ op' = "ToBytes" /\ arg' = ToBytes(d) /\ opErr' = "nil"
    /\ UNCHANGED <<d, prev, calls, endAdded, fromNew>>
    /\ UNCHANGED exVars

MsgNext ==
    \/ MsgNew
    \/ MsgNewDiscovery
    \/ MsgNewInform
    \/ MsgFromBytes
    \/ MsgAddOption
    \/ MsgSetOptions
    \/ MsgSetHwAddrLen
    \/ MsgSetOpcode
    \/ MsgSetBroadcast
    \/ MsgSetUnicast
    \/ MsgSetClientIPAddr
    \/ MsgSetYourIPAddr
    \/ MsgSetServerIPAddr
    \/ MsgSetGatewayIPAddr
    \/ MsgWithNetboot
    \/ MsgNewRequestFromOffer
    \/ MsgClientHwAddrToString
    \/ MsgToBytes

SpecMsg == MsgInit /\ [][MsgNext]_vars

(***************************************************************************)
(* SpecCodec: ToBytes and FromBytes applied in turn to a message drawn     *)
(* from a bounded set of DHCPv4 values (d is the message, arg the bytes).  *)
(***************************************************************************)
IPv4Unspecified == <<0, 0, 0, 0>>
HwAddr16        == [i \in 1 .. 16 |-> 160 + i]
\* "pxe", NUL-padded to the width of the field
BootFilePxe     == <<112, 120, 101>> \o Zeros(125)

CodecOptionLists ==
    { <<OptEnd>>,
      <<OptMessageType(MessageTypeDiscover),
        OptParameterRequestList(<<OptionSubnetMask, OptionRouter,
                                  OptionDomainName, OptionDomainNameServer>>),
        OptEnd>>,
      <<OptMessageType(MessageTypeRequest), OptRequestedIPAddress(IPLease),
        OptServerIdentifier(IPServerA), OptEnd>>,
      <<OptPad, OptMessageType(MessageTypeOffer),
        OptServerIdentifier(IPServerB), OptServerIdentifier(IPServerA),
        OptEnd>>,
      <<OptMessageType(MessageTypeAck)>> }

CodecMessages ==
    [opcode         : {OpcodeBootRequest, OpcodeBootReply},
     hwType         : {HwTypeEthernet},
     hwAddrLen      : {DefaultHwAddrLen, MaxHwAddrLen},
     hopCount       : {0, 1},
     transactionID  : {XidA, XidB},
     numSeconds     : {0, Uint16(<<1, 2>>)},
     flags          : {0, BroadcastFlag},
     clientIPAddr   : {IPv4Unspecified, IPLease, IPv4zero},
     yourIPAddr     : {IPLease},
     serverIPAddr   : {IPServerA},
     gatewayIPAddr  : {RelayIP},
     clientHwAddr   : {HwAddr6 \o Zeros(10), HwAddr16},
     serverHostName : {Zeros(64)},
     bootFileName   : {Zeros(128), BootFilePxe},
     options        : CodecOptionLists]

CodecInit ==
    /\ d \in CodecMessages
    /\ prev = NoMsg /\ op = "none" /\ arg = << >>
    /\ opErr = "nil" /\ calls = 0 /\ endAdded = FALSE /\ fromNew = FALSE
    /\ ExIdle

\* FromBytes(b) for the bytes b that ToBytes() just returned
CodecFromBytes ==
    /\ op = "ToBytes"
    /\ LET r == FromBytes(arg)
       IN  d' = r.msg /\ opErr' = r.err
    /\ prev' = d /\ op' = "FromBytes"
    /\ UNCHANGED <<arg, calls, endAdded, fromNew>>
    /\ UNCHANGED exVars

CodecNext ==
    \/ MsgToBytes
    \/ CodecFromBytes

SpecCodec == CodecInit /\ [][CodecNext]_vars

(***************************************************************************)
(* SpecIAPrefix: ParseOptIAPrefix (dhcpv6) applied to a payload drawn from *)
(* a bounded set (arg is the payload, d the option it returns).            *)
(*                                                                         *)
(* The lifetimes of the payloads stay below 2^31, the largest integer the  *)
(* model checker represents.                                               *)
(***************************************************************************)
\* the fixed part of the payload: two u32, one u8, the 16-byte prefix
IAPrefixFixedLen == 4 + 4 + 1 + 16

\* ParseOptIAPrefix reading the valid lifetime at the preferred lifetime's
\* offset
ParseOptIAPrefixSameOffset(data) ==
    IF Len(data) < IAPrefixFixedLen
    THEN Fail("Invalid IA for Prefix Delegation data length")
    ELSE Ok([preferredLifetime |-> Uint32(Slice(data, 0, 4)),
             validLifetime     |-> Uint32(Slice(data, 0, 4)),
             prefixLength      |-> data[9],
             ipv6Prefix        |-> Slice(data, 9, 25),
             options           |-> Slice(data, 25, Len(data))])

ParseOptIAPrefix(data) ==
    IF Len(data) < IAPrefixFixedLen
    THEN Fail("Invalid IA for Prefix Delegation data length")
    ELSE Ok([preferredLifetime |-> Uint32(Slice(data, 0, 4)),
             validLifetime     |-> Uint32(Slice(data, 4, 8)),
             prefixLength      |-> data[9],
             ipv6Prefix        |-> Slice(data, 9, 25),
             options           |-> Slice(data, 25, Len(data))])

\* net.IPv6loopback and 2001:db8::
IPv6loopback == Zeros(15) \o <<1>>
IPv6DocPrefix == <<32, 1, 13, 184>> \o Zeros(12)

\* the buffers payloads are cut from: lifetimes, prefix length, prefix and
\* the bytes of a sub-option
IAPrefixBuffers ==
    { <<42, 187, 204, 221, 110, 255, 0, 17, 36>> \o IPv6loopback
          \o <<0, 8, 0, 2, 170, 187>>,
      <<0, 0, 14, 16, 0, 0, 28, 32, 56>> \o IPv6DocPrefix
          \o <<0, 13, 0, 2, 0, 0>>,
      <<127, 255, 255, 255, 127, 255, 255, 254, 128>> \o IPv6Addr
          \o <<0, 8, 0, 2, 1, 2>> }

IAPrefixPayloads ==
    { SubSeq(b, 1, n) : b \in IAPrefixBuffers, n \in 0 .. MaxPayloadLen }

IAInit ==
    /\ arg \in IAPrefixPayloads
    /\ d = NoMsg /\ prev = NoMsg /\ op = "none"
    /\ opErr = "nil" /\ calls = 0 /\ endAdded = FALSE /\ fromNew = FALSE
    /\ ExIdle

\* ParseOptIAPrefix(arg)
IAParseOptIAPrefix ==
    /\ op = "none"
    /\ LET r == ParseOptIAPrefix(arg)
       IN  d' = r.msg /\ opErr' = r.err
    /\ op' = "ParseOptIAPrefix"
    /\ UNCHANGED <<arg, prev, calls, endAdded, fromNew>>
    /\ UNCHANGED exVars

IANext == IAParseOptIAPrefix

SpecIAPrefix == IAInit /\ [][IANext]_vars

(***************************************************************************)
(* Spec: Client.Exchange and BroadcastSendReceive (client.go).             *)
(*                                                                         *)
(* The caller's side and the receive goroutine take steps in any order.    *)
(* The goroutine reads the caller's variable err (lines 196 and 212) while *)
(* the caller assigns Sendto's result to it (line 236) with nothing        *)
(* ordering the two: each read is a step of its own and sees whichever     *)
(* value err holds then. A panic of the goroutine ends the process: no     *)
(* step follows it.                                                        *)
(*                                                                         *)
(* sfd and rfd record the statements that open and close the sockets.      *)
(* client.go holds no statement that closes either; the os.File wrapped    *)
(* around rfd at line 195 is left to the garbage collector, whose          *)
(* finalizer is not part of the model.                                     *)
(***************************************************************************)
\* the datagrams that may arrive on the listening socket
ExDatagrams == <<DgOffer, DgOfferNoSID, DgAck, DgOtherXid, DgRequest,
                 DgNoType, DgShort>>
ExRnds == {XidA, RandFail}
\* the discover argument of Exchange: nil, or a message of the caller's
DiscoverInputs == {NoMsg, NewInform(HwAddr6, IPLease, XidA).msg}

ErrTimedOut == "timed out while listening for replies"

\* MakeBroadcastSocket / MakeListeningSocket: the descriptor's state and the
\* error, by where the call fails (Socket itself, or a later setsockopt,
\* Bind or BindToInterface, which leaves the descriptor open)
SocketOutcomes == {"ok", "socket failed", "setup failed"}
MakeSocket(outcome) ==
    CASE outcome = "ok"            -> [fd |-> "open", err |-> "nil"]
      [] outcome = "socket failed" -> [fd |-> "none", err |-> "socket"]
      [] outcome = "setup failed"  -> [fd |-> "open", err |-> "socket"]

\* NewDiscoveryForInterface
NewDiscoveryForInterface(ifaceFound, rnd) ==
    IF ~ifaceFound THEN Fail("no such interface")
    ELSE NewDiscovery(HwAddr6, rnd)

\* conversation = append(conversation, m), with m put first instead
AppendMsgFirst(conv, m) == <<m>> \o conv

\* conversation = append(conversation, m)
AppendMsg(conv, m) == Append(conv, m)

\* the loop body after FromBytes, with the transaction id not compared
VerdictNoXid(resp, pkt, mt) ==
    IF resp.opcode # OpcodeBootReply THEN "continue"
    ELSE IF mt = MessageTypeNone THEN "break"
    ELSE IF HasMessageType(resp) /\ MessageType(resp) = mt THEN "break"
    ELSE "continue"

\* lines 216-232: what the loop does with a parsed datagram
Verdict(resp, pkt, mt) ==
    IF resp.transactionID # pkt.transactionID THEN "continue"
    ELSE IF resp.opcode # OpcodeBootReply THEN "continue"
    ELSE IF mt = MessageTypeNone THEN "break"
    ELSE IF HasMessageType(resp) /\ MessageType(resp) = mt THEN "break"
    ELSE "continue"

\* the select of lines 240-249 with the received error ignored
SelectResultIgnoresErr(e, resp) == [msg |-> resp, err |-> "nil"]

\* lines 241-249: what BroadcastSendReceive returns after it received e
SelectResult(e, resp) ==
    IF e # "nil" THEN [msg |-> NoMsg, err |-> e]
    ELSE [msg |-> resp, err |-> "nil"]

Alive == gpc # "panic"

ExInit ==
    /\ MsgIdle
    /\ pc = "start"
    /\ discoverIn \in DiscoverInputs
    /\ modifiers \in ModifierLists
    /\ conversation = << >> /\ exErr = "nil"
    /\ sfd = "none" /\ rfd = "none" /\ reqRes = NoMsg
    /\ phase = 0 /\ packet = NoMsg /\ messageType = MessageTypeNone
    /\ err = "nil" /\ response = NoMsg /\ recvErrors = << >>
    /\ gpc = "idle" /\ innerErr = "nil" /\ reads = 0 /\ log = << >>
    /\ signals = 0
    /\ sent = << >> /\ retMsg = NoMsg /\ retErr = "nil"

bsrVars == <<phase, packet, messageType, err, response, recvErrors, gpc,
             innerErr, reads, log, signals, sent, retMsg, retErr>>

\* Exchange returns conversation and e
ExchangeReturns(e) == pc' = "done" /\ exErr' = e

\* lines 132-135
ExMakeBroadcastSocket ==
    /\ pc = "start"
    /\ \E outcome \in SocketOutcomes :
          LET r == MakeSocket(outcome)
          IN  /\ sfd' = r.fd
              /\ IF r.err # "nil" THEN ExchangeReturns(r.err)
                 ELSE pc' = "listen" /\ UNCHANGED exErr
    /\ UNCHANGED <<discoverIn, modifiers, conversation, rfd, reqRes>>
    /\ UNCHANGED bsrVars /\ UNCHANGED msgVars

\* lines 136-139
ExMakeListeningSocket ==
    /\ pc = "listen"
    /\ \E outcome \in SocketOutcomes :
          LET r == MakeSocket(outcome)
          IN  /\ rfd' = r.fd
              /\ IF r.err # "nil" THEN ExchangeReturns(r.err)
                 ELSE pc' = "discover" /\ UNCHANGED exErr
    /\ UNCHANGED <<discoverIn, modifiers, conversation, sfd, reqRes>>
    /\ UNCHANGED bsrVars /\ UNCHANGED msgVars

\* lines 141-154: the Discover, up to the call of BroadcastSendReceive
ExDiscover ==
    /\ pc = "discover"
    /\ \E ifaceFound \in BOOLEAN, rnd \in ExRnds :
          LET r == IF discoverIn = NoMsg
                   THEN NewDiscoveryForInterface(ifaceFound, rnd)
                   ELSE Ok(discoverIn)
              discover == ApplyModifiers(modifiers, 1, r.msg)
          IN  IF r.err # "nil"
              THEN /\ ExchangeReturns(r.err)
                   /\ UNCHANGED <<conversation, packet, messageType>>
              ELSE /\ conversation' = AppendMsg(conversation, discover)
                   /\ packet' = discover
                   /\ messageType' = MessageTypeOffer
                   /\ pc' = "bsr" /\ UNCHANGED exErr
    /\ UNCHANGED <<discoverIn, modifiers, sfd, rfd, reqRes, phase, err,
                   response, recvErrors, gpc, innerErr, reads, log, signals,
                   sent, retMsg, retErr>>
    /\ UNCHANGED msgVars

\* lines 180-235: BroadcastSendReceive up to the go statement
\* (MakeRawBroadcastPacket marshals a header of fixed, valid shape: it does
\* not fail)
BSRStart ==
    /\ pc = "bsr"
    /\ phase' = phase + 1
    /\ err' = "nil" /\ response' = NoMsg /\ recvErrors' = << >>
    /\ gpc' = "fileconn" /\ innerErr' = "nil" /\ reads' = 0 /\ log' = << >>
    /\ signals' = 0
    /\ retMsg' = NoMsg /\ retErr' = "nil"
    /\ pc' = "sendto"
    /\ UNCHANGED <<discoverIn, modifiers, conversation, exErr, sfd, rfd,
                   reqRes, packet, messageType, sent>>
    /\ UNCHANGED msgVars

\* BroadcastSendReceive returns r.msg and r.err
BSRReturns(r) == pc' = "returned" /\ retMsg' = r.msg /\ retErr' = r.err

\* lines 236-238 without the return: after a failed Sendto the caller goes
\* on to the select
CallerSendtoIgnoresFailure ==
    /\ pc = "sendto" /\ Alive
    /\ \E ok \in BOOLEAN :
          /\ err' = IF ok THEN "nil" ELSE "sendto"
          /\ sent' = IF ok THEN Append(sent, packet) ELSE sent
    /\ pc' = "select"
    /\ UNCHANGED <<retMsg, retErr>>
    /\ UNCHANGED <<discoverIn, modifiers, conversation, exErr, sfd, rfd,
                   reqRes, phase, packet, messageType, response, recvErrors,
                   gpc, innerErr, reads, log, signals>>
    /\ UNCHANGED msgVars

\* lines 236-238
CallerSendto ==
    /\ pc = "sendto" /\ Alive
    /\ \E ok \in BOOLEAN :
          IF ok
          THEN /\ err' = "nil"
               /\ sent' = Append(sent, packet)
               /\ pc' = "select"
               /\ UNCHANGED <<retMsg, retErr>>
          ELSE /\ err' = "sendto"
               /\ BSRReturns([msg |-> NoMsg, err |-> "sendto"])
               /\ UNCHANGED sent
    /\ UNCHANGED <<discoverIn, modifiers, conversation, exErr, sfd, rfd,
                   reqRes, phase, packet, messageType, response, recvErrors,
                   gpc, innerErr, reads, log, signals>>
    /\ UNCHANGED msgVars

\* lines 241-244 and 249: the select takes the value in the channel
CallerSelectRecv ==
    /\ pc = "select" /\ Alive
    /\ recvErrors # << >>
    /\ err' = Head(recvErrors)
    /\ recvErrors' = Tail(recvErrors)
    /\ BSRReturns(SelectResult(Head(recvErrors), response))
    /\ UNCHANGED <<discoverIn, modifiers, conversation, exErr, sfd, rfd,
                   reqRes, phase, packet, messageType, response, gpc,
                   innerErr, reads, log, signals, sent>>
    /\ UNCHANGED msgVars

\* lines 245-246: the select takes the timer
CallerSelectTimeout ==
    /\ pc = "select" /\ Alive
    /\ BSRReturns([msg |-> NoMsg, err |-> ErrTimedOut])
    /\ UNCHANGED <<discoverIn, modifiers, conversation, exErr, sfd, rfd,
                   reqRes, phase, packet, messageType, err, response,
                   recvErrors, gpc, innerErr, reads, log, signals, sent>>
    /\ UNCHANGED msgVars

\* lines 155-158 and 169-173: Exchange after a BroadcastSendReceive
ExAfterReceive ==
    /\ pc = "returned" /\ Alive
    /\ IF retErr # "nil"
       THEN ExchangeReturns(retErr) /\ UNCHANGED conversation
       ELSE /\ conversation' = AppendMsg(conversation, retMsg)
            /\ IF phase = 1 THEN pc' = "request" /\ UNCHANGED exErr
                            ELSE ExchangeReturns("nil")
    /\ UNCHANGED <<discoverIn, modifiers, sfd, rfd, reqRes>>
    /\ UNCHANGED bsrVars /\ UNCHANGED msgVars

\* lines 160-168: the Request, up to the call of BroadcastSendReceive
ExRequest ==
    /\ pc = "request" /\ Alive
    /\ \E rnd \in ExRnds :
          LET r == NewRequestFromOffer(retMsg, modifiers, rnd)
          IN  /\ reqRes' = r
              /\ IF r.err # "nil"
                 THEN /\ ExchangeReturns(r.err)
                      /\ UNCHANGED <<conversation, packet, messageType>>
                 ELSE /\ conversation' = AppendMsg(conversation, r.msg)
                      /\ packet' = r.msg
                      /\ messageType' = MessageTypeAck
                      /\ pc' = "bsr" /\ UNCHANGED exErr
    /\ UNCHANGED <<discoverIn, modifiers, sfd, rfd, phase, err, response,
                   recvErrors, gpc, innerErr, reads, log, signals, sent,
                   retMsg, retErr>>
    /\ UNCHANGED msgVars

goUnchanged == <<pc, discoverIn, modifiers, conversation, exErr, sfd, rfd,
                 reqRes, phase, packet, messageType, err, sent, retMsg,
                 retErr>>

\* errs <- e; return
GoSignals(e) ==
    /\ Len(recvErrors) < 1
    /\ recvErrors' = Append(recvErrors, e)
    /\ signals' = signals + 1
    /\ gpc' = "done"

\* lines 195-201: FileConn, the check of err (not of innerErr), the deferred
\* conn.Close() (a nil conn panics there) and SetReadDeadline
GoFileConn ==
    /\ gpc = "fileconn"
    /\ \E e \in {"nil", "fileconn"} :
          /\ innerErr' = e
          /\ IF err # "nil" THEN GoSignals(e)
             ELSE IF e # "nil"
             THEN gpc' = "panic" /\ UNCHANGED <<recvErrors, signals>>
             ELSE gpc' = "read" /\ UNCHANGED <<recvErrors, signals>>
    /\ UNCHANGED <<response, reads, log>>
    /\ UNCHANGED goUnchanged /\ UNCHANGED msgVars

\* lines 204-211: ReadMsgUDP gives a datagram, FromBytes parses it
GoRead ==
    /\ gpc = "read" /\ reads < MaxReads
    /\ \E i \in DOMAIN ExDatagrams :
          LET r == FromBytes(ExDatagrams[i])
          IN  /\ response' = r.msg
              /\ innerErr' = r.err
              /\ log' = Append(log, [dg |-> i, did |-> "read",
                                      early |-> (pc = "sendto")])
    /\ reads' = reads + 1
    /\ gpc' = "check"
    /\ UNCHANGED <<recvErrors, signals>>
    /\ UNCHANGED goUnchanged /\ UNCHANGED msgVars

\* lines 205-209: ReadMsgUDP fails, at the read deadline of line 201 or with
\* another socket error
GoReadFails ==
    /\ gpc = "read"
    /\ \E e \in {"i/o timeout", "read"} :
          /\ innerErr' = e
          /\ GoSignals(e)
    /\ UNCHANGED <<response, reads, log>>
    /\ UNCHANGED goUnchanged /\ UNCHANGED msgVars

\* what the goroutine did with the datagram it read last
Did(what) == [log EXCEPT ![Len(log)].did = what]

\* lines 212-233: the check of err (not of innerErr), then the fields of
\* response (a nil response panics at response.TransactionID())
GoCheck ==
    /\ gpc = "check"
    /\ IF err # "nil"
       THEN GoSignals(innerErr) /\ log' = Did("signalled")
       ELSE IF response = NoMsg
       THEN /\ gpc' = "panic" /\ log' = Did("panic")
            /\ UNCHANGED <<recvErrors, signals>>
       ELSE IF Verdict(response, packet, messageType) = "continue"
       THEN /\ gpc' = "read" /\ log' = Did("continue")
            /\ UNCHANGED <<recvErrors, signals>>
       ELSE GoSignals("nil") /\ log' = Did("break")
    /\ UNCHANGED <<response, innerErr, reads>>
    /\ UNCHANGED goUnchanged /\ UNCHANGED msgVars

Next ==
    \/ ExMakeBroadcastSocket
    \/ ExMakeListeningSocket
    \/ ExDiscover
    \/ BSRStart
    \/ CallerSendto
    \/ CallerSelectRecv
    \/ CallerSelectTimeout
    \/ ExAfterReceive
    \/ ExRequest
    \/ GoFileConn
    \/ GoRead
    \/ GoReadFails
    \/ GoCheck

Spec == ExInit /\ [][Next]_vars

(***************************************************************************)
(* Claims on the DHCPv4 value (checked under SpecMsg).                     *)
(***************************************************************************)
CodeIndices(m, code) == {i \in 1 .. Len(m.options) : m.options[i].code = code}
MinOf(S) == CHOOSE x \in S : \A y \in S : x <= y
MaxOf(S) == CHOOSE x \in S : \A y \in S : x >= y
EndsWithEnd(options) == Len(options) > 0 /\ Last(options).code = OptionEnd

\* what NewRequestFromOffer does with the ServerIdentifier at index i of the
\* offer (prev): no "missing server" error unless that identifier holds no
\* address, and a request it returns has that address as its server IP and
\* in the one ServerIdentifier option it carries
RequestUsesServerIdentifier(i) ==
    LET id == prev.options[i].data
    IN  /\ opErr \in {"nil", "rand", "Missing Server IP Address in DHCP Offer"}
        /\ (opErr = "Missing Server IP Address in DHCP Offer") => (id = NilIP)
        /\ (opErr = "nil") =>
              /\ d.serverIPAddr = id
              /\ Cardinality(CodeIndices(d, OptionServerIdentifier)) = 1
              /\ \A j \in CodeIndices(d, OptionServerIdentifier) :
                     d.options[j].data = id

\* C7 as stated: for an offer with one or more ServerIdentifier options,
\* NewRequestFromOffer uses the FIRST one in option order, as the request's
\* server IP and in the ServerIdentifier option it emits.
C7_UsesFirstServerIdentifier ==
    (op = "NewRequestFromOffer" /\ CodeIndices(prev, OptionServerIdentifier) # {})
        => RequestUsesServerIdentifier(MinOf(CodeIndices(prev, OptionServerIdentifier)))

\* C7 amended: for an offer with one or more ServerIdentifier options,
\* NewRequestFromOffer uses the LAST one in option order, as the request's
\* server IP and in the ServerIdentifier option it emits, also when earlier
\* ServerIdentifier options carry another address.
C7_UsesLastServerIdentifier ==
    (op = "NewRequestFromOffer" /\ CodeIndices(prev, OptionServerIdentifier) # {})
        => RequestUsesServerIdentifier(MaxOf(CodeIndices(prev, OptionServerIdentifier)))

\* a request was built from an offer whose first and last ServerIdentifier
\* differ
C7_Witness ==
    /\ op = "NewRequestFromOffer" /\ opErr = "nil"
    /\ LET S == CodeIndices(prev, OptionServerIdentifier)
       IN  /\ Cardinality(S) >= 2
           /\ prev.options[MinOf(S)].data # prev.options[MaxOf(S)].data

\* C9: AddOption(x) on a list that ends with End gives the list with x put
\* right before that End (the options before it keep their places); on an
\* empty list or one that does not end with End it appends x. So a message
\* built by New() and changed by AddOption calls only, none of them adding
\* an End, ends with End and holds exactly one End.
C9_AddOptionEndLaw ==
    /\ (op = "AddOption") =>
          LET o == prev.options
              n == Len(o)
          IN  /\ Len(d.options) = n + 1
              /\ EndsWithEnd(o) =>
                    /\ d.options[n + 1] = o[n]
                    /\ d.options[n] = arg
                    /\ SubSeq(d.options, 1, n - 1) = SubSeq(o, 1, n - 1)
              /\ ~EndsWithEnd(o) =>
                    /\ d.options[n + 1] = arg
                    /\ SubSeq(d.options, 1, n) = o
    /\ (d # NoMsg /\ fromNew /\ ~endAdded) =>
          /\ EndsWithEnd(d.options)
          /\ Cardinality(CodeIndices(d, OptionEnd)) = 1

\* two AddOption calls (no End among them) were made on a message from New()
C9_Witness ==
    /\ op = "AddOption" /\ fromNew /\ ~endAdded /\ calls >= 2
    /\ EndsWithEnd(prev.options) /\ Len(prev.options) >= 2

\* C10 as stated: every reachable DHCPv4 message has HwAddrLen() <= 16, and
\* ClientHwAddrToString never slices the 16-byte array out of range.
C10_HwAddrLenAtMost16 ==
    /\ (d # NoMsg) => d.hwAddrLen <= MaxHwAddrLen
    /\ (op = "ClientHwAddrToString") => opErr # "panic"

\* how many times code x stands in the list of codes s
CountOf(s, x) == Cardinality({i \in 1 .. Len(s) : s[i] = x})

\* the codes of the first ParameterRequestList of m (none: the empty list)
RequestedOpts(m) ==
    IF CodeIndices(m, OptionParameterRequestList) = {} THEN << >>
    ELSE GetOneOption(m, OptionParameterRequestList).data

\* C13: WithNetboot is idempotent: applied to a message WithNetboot was
\* applied to, it leaves the option list as it is. So one application adds
\* each of TFTPServerName and BootfileName to the parameter request list at
\* most once (not at all when it is there), and makes a ParameterRequestList
\* option only when the message has none.
C13_WithNetbootIdempotent ==
    (op = "WithNetboot") =>
        /\ WithNetboot(d) = d
        /\ WithNetboot(WithNetboot(d)).options = d.options
        /\ \A x \in {OptionTFTPServerName, OptionBootfileName} :
               CountOf(RequestedOpts(d), x)
                   = IF CountOf(RequestedOpts(prev), x) = 0 THEN 1
                     ELSE CountOf(RequestedOpts(prev), x)
        /\ Cardinality(CodeIndices(d, OptionParameterRequestList))
               = IF CodeIndices(prev, OptionParameterRequestList) = {} THEN 1
                 ELSE Cardinality(CodeIndices(prev, OptionParameterRequestList))

\* WithNetboot was applied to a message it had completed before (the list
\* held BootfileName but not TFTPServerName at first): nothing changed
C13_Witness ==
    /\ op = "WithNetboot" /\ calls >= 3 /\ d = prev
    /\ RequestedOpts(d) = <<OptionBootfileName, OptionRouter,
                             OptionTFTPServerName>>

\* C11 as stated: for every message reachable through the constructors,
\* FromBytes and the public setters (the four IP address setters given any
\* address, absent or 16-byte included), ToBytes writes a header of exactly
\* 236 bytes: its output is at least 240 bytes long, bytes 236..239 are the
\* magic cookie 99,130,83,99 and the options' bytes follow them.
C11_HeaderIs236Bytes ==
    (op = "ToBytes") =>
        /\ Len(arg) >= HeaderSize + Len(MagicCookie)
        /\ Slice(arg, HeaderSize, HeaderSize + Len(MagicCookie)) = MagicCookie
        /\ Len(arg) = HeaderSize + Len(MagicCookie)
                        + Len(OptionsToBytes(d.options, 1))

\* C14 as stated: the message NewInform returns holds MessageType(Inform)
\* and no End option.
C14_NewInformHasNoEnd ==
    (op = "NewInform" /\ opErr = "nil") =>
        /\ \E i \in 1 .. Len(d.options) :
               d.options[i] = OptMessageType(MessageTypeInform)
        /\ CodeIndices(d, OptionEnd) = {}

(***************************************************************************)
(* Claims on the codec (checked under SpecCodec).                          *)
(***************************************************************************)
\* a legal message: the four addresses are 4-byte addresses and the option
\* list ends with End, the one End ValidateOptions accepts
LegalMessage(m) ==
    /\ \A ip \in {m.clientIPAddr, m.yourIPAddr, m.serverIPAddr,
                   m.gatewayIPAddr} : Len(ip) = 4
    /\ EndsWithEnd(m.options)
    /\ ValidateOptions(m) = {}

\* C12: for every legal message m (4-byte addresses, an option list ending
\* with End), FromBytes(m.ToBytes()) succeeds and gives a message equal to m
\* in every header field and in its option list, option order included.
C12_RoundTrip ==
    (op = "FromBytes" /\ prev # NoMsg /\ LegalMessage(prev)) =>
        /\ opErr = "nil"
        /\ d # NoMsg
        /\ \A f \in {"opcode", "hwType", "hwAddrLen", "hopCount",
                      "transactionID", "numSeconds", "flags", "clientIPAddr",
                      "yourIPAddr", "serverIPAddr", "gatewayIPAddr",
                      "clientHwAddr", "serverHostName", "bootFileName"} :
               d[f] = prev[f]
        /\ d.options = prev.options

\* a legal message with the broadcast flag, a 16-byte hardware address, a
\* boot file name and four options went through ToBytes and FromBytes
C12_Witness ==
    /\ op = "FromBytes" /\ prev # NoMsg /\ LegalMessage(prev)
    /\ prev.flags = BroadcastFlag /\ prev.hwAddrLen = MaxHwAddrLen
    /\ prev.bootFileName = BootFilePxe /\ prev.numSeconds # 0
    /\ Len(prev.options) >= 4
    /\ d = prev

(***************************************************************************)
(* Claims on ParseOptIAPrefix (checked under SpecIAPrefix).                *)
(***************************************************************************)
\* C15: ParseOptIAPrefix returns an error and no option for every payload
\* shorter than 25 bytes, and succeeds for every payload of exactly 25
\* bytes: preferred lifetime from bytes 0..3 and valid lifetime from bytes
\* 4..7 (big-endian), the prefix length from byte 8, the prefix from bytes
\* 9..24, and no sub-options.
C15_IAPrefixMinimumLength ==
    (op = "ParseOptIAPrefix") =>
        /\ (Len(arg) < 25) => (opErr # "nil" /\ d = NoMsg)
        /\ (Len(arg) = 25) =>
              /\ opErr = "nil" /\ d # NoMsg
              /\ d.preferredLifetime =
                    ((arg[1] * 256 + arg[2]) * 256 + arg[3]) * 256 + arg[4]
              /\ d.validLifetime =
                    ((arg[5] * 256 + arg[6]) * 256 + arg[7]) * 256 + arg[8]
              /\ d.prefixLength = arg[9]
              /\ d.ipv6Prefix = SubSeq(arg, 10, 25)
              /\ Len(d.ipv6Prefix) = 16
              /\ d.options = << >>
        /\ (Len(arg) = 25 /\ arg[9] = 36) =>
              /\ d.ipv6Prefix = IPv6loopback
              /\ d.validLifetime # d.preferredLifetime

\* a payload of exactly 25 bytes was parsed
C15_Witness ==
    /\ op = "ParseOptIAPrefix" /\ Len(arg) = 25 /\ opErr = "nil"
    /\ d.prefixLength = 36 /\ d.ipv6Prefix = IPv6loopback

(***************************************************************************)
(* Claims on the exchange (checked under Spec).                            *)
(***************************************************************************)
\* the datagram of log entry k, parsed
Parsed(k) == FromBytes(ExDatagrams[log[k].dg])

\* m was received: it is the parse of a datagram that arrived
Received(m) == \E i \in DOMAIN ExDatagrams : FromBytes(ExDatagrams[i]) = Ok(m)

\* the opcode and message type conditions of the reply correlation
ReplyOfType(m, mt) ==
    /\ m.opcode = OpcodeBootReply
    /\ \/ mt = MessageTypeNone
       \/ \E i \in 1 .. Len(m.options) :
             m.options[i] = OptMessageType(mt)

\* all the conditions of the reply correlation
Correlates(m, pkt, mt) ==
    m.transactionID = pkt.transactionID /\ ReplyOfType(m, mt)

\* the current BroadcastSendReceive call got its packet sent
SendSucceeded == phase >= 1 /\ Len(sent) = phase

\* no datagram satisfying the correlation conditions arrived in this call
NoReplyArrived ==
    \A k \in DOMAIN log :
        Parsed(k).err = "nil" => ~Correlates(Parsed(k).msg, packet, messageType)

\* C1: when Exchange returns, the conversation is a prefix of [Discover,
\* Offer, Request, Ack] in that order, holding exactly the messages built or
\* received before the return, and the error is nil exactly when the
\* conversation holds all four.
C1_ConversationIsPrefix ==
    (pc = "done") =>
        LET n == Len(conversation)
        IN  /\ n <= 4
            /\ (exErr = "nil") <=> (n = 4)
            \* as many as were built or received
            /\ n = (IF phase >= 1 THEN 1 ELSE 0)
                   + (IF reqRes # NoMsg THEN 1 ELSE 0)
                   + (IF phase = 2 THEN 1 ELSE 0)
                   + (IF phase = 2 /\ retErr = "nil" THEN 1 ELSE 0)
            \* first the message sent as the Discover
            /\ (n >= 1) =>
                  /\ conversation[1] # NoMsg
                  /\ (phase = 1) => (conversation[1] = packet)
                  /\ (Len(sent) >= 1) => (conversation[1] = sent[1])
            \* then the Offer received
            /\ (n >= 2) =>
                  /\ Received(conversation[2])
                  /\ ReplyOfType(conversation[2], MessageTypeOffer)
            \* then the Request built from it
            /\ (n >= 3) =>
                  /\ conversation[3] = reqRes.msg
                  /\ conversation[3] = packet
                  /\ conversation[3].opcode = OpcodeBootRequest
                  /\ (Len(sent) = 2) => (conversation[3] = sent[2])
            \* then the Ack received
            /\ (n = 4) =>
                  /\ Received(conversation[4])
                  /\ ReplyOfType(conversation[4], MessageTypeAck)

\* Exchange returned all four messages
C1_Witness == pc = "done" /\ Len(conversation) = 4 /\ exErr = "nil"

\* C2: a BroadcastSendReceive that returns without error returns a message,
\* with the transaction id of the packet sent; so in a conversation Exchange
\* returns the Offer has the Discover's id and the Ack the Request's.
C2_TransactionIdCorrelation ==
    /\ (pc = "returned" /\ retErr = "nil") =>
          /\ retMsg # NoMsg
          /\ retMsg.transactionID = packet.transactionID
    /\ (pc = "done" /\ Len(conversation) >= 2) =>
          conversation[2].transactionID = conversation[1].transactionID
    /\ (pc = "done" /\ Len(conversation) = 4) =>
          conversation[4].transactionID = conversation[3].transactionID

\* a reply was returned after a datagram with another transaction id had
\* been read and passed over
C2_Witness ==
    /\ pc = "returned" /\ retErr = "nil"
    /\ \E k \in DOMAIN log :
          /\ Parsed(k).err = "nil"
          /\ Parsed(k).msg.transactionID # packet.transactionID
          /\ ReplyOfType(Parsed(k).msg, messageType)
          /\ log[k].did = "continue"

\* C3 as stated: the receive loop accepts a datagram only when its opcode is
\* BOOTREPLY and the expected type is MessageTypeNone or the datagram's
\* message type is the expected one; every other (parsed) datagram is
\* dropped and the loop goes on reading, with nothing put on the channel.
C3_OthersDroppedLoopGoesOn ==
    \A k \in DOMAIN log :
        (Parsed(k).err = "nil") =>
            /\ (log[k].did = "break")
                  => ReplyOfType(Parsed(k).msg, messageType)
            /\ ~ReplyOfType(Parsed(k).msg, messageType)
                  => log[k].did \in {"read", "continue"}

\* C4 as stated: a BroadcastSendReceive whose send succeeded and to which no
\* correlating datagram arrived returns no message and the error "timed out
\* while listening for replies", no other.
C4_OnlyTimedOutError ==
    (pc = "returned" /\ SendSucceeded /\ NoReplyArrived) =>
        retMsg = NoMsg /\ retErr = ErrTimedOut

\* C4 amended: a BroadcastSendReceive whose send succeeded and to which no
\* correlating datagram arrived returns, when it returns, no message and an
\* error: "timed out while listening for replies" (the caller's timer), or
\* the error of the receive goroutine's ReadMsgUDP, which is its own read
\* deadline expiring ("i/o timeout") or another read error of the socket.
C4_NoReplyGivesAnError ==
    (pc = "returned" /\ SendSucceeded /\ NoReplyArrived) =>
        /\ retMsg = NoMsg
        /\ retErr \in {ErrTimedOut, "i/o timeout", "read"}

\* the goroutine's read deadline came first: the call returned the read's
\* error after a datagram that did not correlate
C4_Witness ==
    /\ pc = "returned" /\ SendSucceeded /\ NoReplyArrived
    /\ Len(log) >= 1 /\ retErr = "i/o timeout"

\* C5 as stated: a datagram FromBytes cannot parse has its parse error put
\* on the channel; the goroutine never goes on to the fields of the nil
\* message.
C5_ParseErrorSignalled ==
    \A k \in DOMAIN log :
        (Parsed(k).err # "nil") => log[k].did \in {"read", "signalled"}

\* C6 as stated: when Exchange returns, every socket it opened is closed.
C6_SocketsClosedOnReturn ==
    (pc = "done") => (sfd # "open" /\ rfd # "open")

\* C8: NewRequestFromOffer on an offer without ServerIdentifier returns an
\* error and no message, calls no modifier and leaves the offer as it was;
\* Exchange then returns [Discover, Offer] with that error, and no Request
\* was sent.
C8_NoServerIdentifierNoRequest ==
    (reqRes # NoMsg /\ Len(conversation) >= 2
       /\ CodeIndices(conversation[2], OptionServerIdentifier) = {}) =>
        /\ reqRes.err # "nil"
        /\ reqRes.msg = NoMsg
        /\ reqRes.applied = << >>
        /\ reqRes.offer = conversation[2]
        /\ pc = "done"
        /\ exErr = reqRes.err
        /\ Len(conversation) = 2
        /\ phase = 1 /\ Len(sent) = 1 /\ sent[1] = conversation[1]

\* Exchange, called with modifiers, returned for an offer without
\* ServerIdentifier
C8_Witness ==
    /\ pc = "done" /\ modifiers # << >>
    /\ exErr = "Missing Server IP Address in DHCP Offer"
    /\ CodeIndices(conversation[2], OptionServerIdentifier) = {}

\* C16: a BroadcastSendReceive that returns a message has had its Sendto
\* return successfully before: while the send is not issued nothing is
\* handed to the caller, also when the receive goroutine has already read
\* and matched a datagram, and after a failed send no message is returned.
C16_SendBeforeAccept ==
    /\ (pc = "returned" /\ retMsg # NoMsg) =>
          /\ SendSucceeded
          /\ Last(sent) = packet
          /\ retErr = "nil"
    /\ (pc = "returned" /\ ~SendSucceeded) =>
          /\ retMsg = NoMsg
          /\ retErr = "sendto"
    /\ (pc = "sendto") =>
          /\ retMsg = NoMsg
          /\ Len(conversation) = 2 * phase - 1
    /\ (pc = "done" /\ Len(conversation) >= 2) => Len(sent) >= 1
    /\ (pc = "done" /\ Len(conversation) = 4) => Len(sent) = 2

\* the goroutine read the matching datagram before the send was issued, and
\* the call returned it after the send
C16_Witness ==
    /\ pc = "returned" /\ retMsg # NoMsg /\ SendSucceeded
    /\ Len(log) >= 1
    /\ Last(log).early /\ Last(log).did = "break"
    /\ Parsed(Len(log)).msg = retMsg

\* the receive goroutine of the current call has ended
GoEnded == gpc \in {"done", "panic"}

\* C17 as stated (what a finite run can refute of it): the receive
\* goroutine sends at most one value on recvErrors, it has sent exactly one
\* when it has ended, and the channel has room for that value as long as the
\* goroutine runs (so the send never blocks), also after the caller has
\* returned.
C17_ReceiveTaskSignalsOnce ==
    /\ signals <= 1
    /\ GoEnded => (signals = 1)
    /\ (gpc \in {"fileconn", "read", "check"}) => (recvErrors = << >>)

\* C18 as stated: the caller and the receive goroutine share no mutable
\* state but the channel. The goroutine's error checks give what its own
\* innerErr decides, whether or not the caller has stored Sendto's result in
\* err: after FileConn it signals only an error of FileConn, after FromBytes
\* only an error of FromBytes; and the caller reads response only after it
\* has received on the channel.
C18_NoSharedMutableState ==
    /\ (gpc = "done" /\ reads = 0) => (innerErr # "nil")
    /\ \A k \in DOMAIN log :
           (log[k].did = "signalled") => (Parsed(k).err # "nil")
    /\ (pc = "returned" /\ retMsg # NoMsg) =>
           (signals = 1 /\ recvErrors = << >>)

=============================================================================
